---- MODULE Spec2Model ----
(***************************************************************************)
(* Gridgeist: the hybrid memory subsystem (ShortTermMemory on SQLite,      *)
(* LongTermMemory on a vector store, MemoryManager) and the Agent's        *)
(* bounded tool-calling loop.                                              *)
(*                                                                         *)
(* Eight specifications share the variables:                               *)
(*   StoreSpec    the ShortTermMemory class driven directly through its    *)
(*                public methods, any session, any limit;                  *)
(*   Spec         BotClient.on_message -> Agent.process_message ->         *)
(*                MemoryManager.add_interaction over pre-filled sessions;  *)
(*   ManagerSpec  MemoryManager.add_interaction called directly;           *)
(*   LtmSpec      the LongTermMemory class and MemoryManager.get_context   *)
(*                driven directly over a pre-filled collection;            *)
(*   ChannelSpec  several messages of one channel processed concurrently   *)
(*                by on_message;                                           *)
(*   DiarySpec    add_interaction and the save-and-trim block of           *)
(*                maintain_temporal_diary driven directly;                 *)
(*   OverlapSpec  add_interaction calls of one channel whose maintenance   *)
(*                runs suspend at the summarizer call;                     *)
(*   DeleteSpec   the delete_memory_by_content tool and save_memory        *)
(*                driven directly.                                         *)
(***************************************************************************)
EXTENDS Integers, Sequences, FiniteSets, TLC

\* ------------------------------------------------------------------ bounds
MaxRows  == 4      \* StoreSpec: rows ever inserted
MaxClock == 2      \* StoreSpec: seconds the wall clock advances
MaxLimit == 3      \* StoreSpec: largest limit passed to recent / trim
MaxTicks == 1      \* Spec: seconds the wall clock advances after Init
MaxInbound == 1    \* Spec: inbound Discord messages
MaxCalls == 2      \* ManagerSpec: add_interaction calls
MaxPoints == 2     \* LtmSpec, DiarySpec, DeleteSpec: save_memory and delete_memory calls
MaxChannel == 2    \* ChannelSpec, OverlapSpec: inbound Discord messages

\* ------------------------------------------------------- program constants
LoopBound_Six    == 5 + 1 \* mutant: one round more
LoopBound        == 5     \* agent.py:45      for _ in range(5)
HistoryLimit     == 25    \* manager.py:50    get_recent_messages(limit=25)
Milestone        == 50    \* manager.py:59    if count > 50
DiaryWindow      == 50    \* manager.py:67    get_recent_messages(limit=50)
DiaryKeep        == 35    \* manager.py:108   trim_to_limit(limit=35)
DiaryImportance  == 7     \* manager.py:101   importance=7
CoreFactLimit    == 15    \* manager.py:29    get_core_facts(limit=15)
SearchLimit      == 5     \* manager.py:37    search_memories(limit=5)
StatsLimit       == 100   \* long_term.py:161 get_by_filter(limit=100)

Sessions == {"s1", "s2"}

None == "None"     \* Python's None

Min(a, b) == IF a <= b THEN a ELSE b

Reqs == {"r1", "r2"}     \* inbound Discord messages (on_message invocations)

VARIABLES
    db,        \* the SQLite table `messages`, rows in rowid order
    nextId,    \* the AUTOINCREMENT counter of `messages`
    clock,     \* CURRENT_TIMESTAMP, in whole seconds
    last,      \* the last store or manager call made directly: arguments and result
    ltm,       \* the Qdrant collection: points in the order they were saved
    ltmNext,   \* Spec: the id of the next point; LtmSpec: save and delete calls made, plus one
    startClock,\* the clock value at Init
    agents,    \* BotClient.agents: session_id -> user_id of the cached MemoryManager
    arrived,   \* inbound Discord messages received so far (ManagerSpec: calls made)
    pc,        \* per on_message invocation: "idle" or "llm" (awaiting chat_completion)
    inbound,   \* per on_message invocation: seq, session_id, author, user_input
    messages,  \* per on_message invocation: process_message's local `messages`
    llmCalls,  \* per on_message invocation: chat_completion calls issued by the loop
    toolErrors,\* per on_message invocation: tool-result messages holding an error string
    result,    \* how process_message ended, if the step just taken ended one
    reply      \* what on_message sent to the channel in the step just taken

storeVars == <<db, nextId, clock, last>>
agentVars == <<ltm, ltmNext, startClock, agents, arrived, pc, inbound, messages,
              llmCalls, toolErrors, result, reply>>
vars == <<db, nextId, clock, last, ltm, ltmNext, startClock, agents, arrived, pc,
          inbound, messages, llmCalls, toolErrors, result, reply>>

\* ------------------------------------------------- ShortTermMemory (SQLite)

\* INSERT INTO messages (session_id, user_id, role, content): id from the
\* AUTOINCREMENT counter, created_at from DEFAULT CURRENT_TIMESTAMP.
\* `by` is not a column: it records which inbound message's interaction made
\* the INSERT (0: none of them).
add_message(d, id, now, session_id, user_id, role, content, by) ==
    Append(d, [id |-> id, session_id |-> session_id, user_id |-> user_id,
               role |-> role, content |-> content, created_at |-> now, by |-> by])

\* WHERE session_id = ?  (index scan: rows of the session in rowid order)
SessionRows(d, session_id) ==
    SelectSeq(d, LAMBDA row : row.session_id = session_id)

\* The sorter behind ORDER BY created_at: rows ordered by created_at,
\* descending or ascending, rows of equal created_at staying in the order they
\* arrived (scan order).  Each row is paired with the position it gets.
StableSort(rows, descending) ==
    LET n == Len(rows)
        Before(a, b) == IF descending THEN a > b ELSE a < b
        placed == {<<Cardinality({j \in 1..n :
                        \/ Before(rows[j].created_at, rows[i].created_at)
                        \/ (rows[j].created_at = rows[i].created_at /\ j <= i)}), i>>
                    : i \in 1..n}
    IN  [k \in 1..n |-> rows[(CHOOSE p \in placed : p[1] = k)[2]]]

\* ORDER BY created_at DESC
OrderByCreatedAtDesc(rows) == StableSort(rows, TRUE)

\* Mutant: the outer ORDER BY created_at ASC is missing.
OrderByCreatedAtAsc_NoResort(rows) == rows

\* ORDER BY created_at ASC
OrderByCreatedAtAsc(rows) == StableSort(rows, FALSE)

\* LIMIT ?
Limit(rows, limit) == SubSeq(rows, 1, Min(limit, Len(rows)))

\* SELECT ... WHERE session_id = ? ORDER BY created_at DESC LIMIT ?
NewestByCreatedAt(d, session_id, limit) ==
    Limit(OrderByCreatedAtDesc(SessionRows(d, session_id)), limit)

\* The rows selected by get_recent_messages, before the projection to
\* (role, content): the inner SELECT re-sorted ORDER BY created_at ASC.
RecentRows(d, session_id, limit) ==
    OrderByCreatedAtAsc(NewestByCreatedAt(d, session_id, limit))

\* get_recent_messages: [{"role": ..., "content": ...} for row in rows]
get_recent_messages(d, session_id, limit) ==
    LET rows == RecentRows(d, session_id, limit)
    IN  [i \in 1..Len(rows) |-> [role |-> rows[i].role, content |-> rows[i].content]]

\* Mutant: DELETE FROM messages, without the WHERE clause.
clear_history_All(d, session_id) == << >>

\* DELETE FROM messages WHERE session_id = ?
clear_history(d, session_id) ==
    SelectSeq(d, LAMBDA row : row.session_id # session_id)

\* SELECT COUNT(*) FROM messages WHERE session_id = ?
get_message_count(d, session_id) == Len(SessionRows(d, session_id))

\* Mutant: `id IN (...)` instead of `id NOT IN (...)`.
trim_to_limit_In(d, session_id, limit) ==
    LET kept == Limit(OrderByCreatedAtDesc(SessionRows(d, session_id)), limit)
        keptIds == {kept[i].id : i \in 1..Len(kept)}
    IN  SelectSeq(d, LAMBDA row : ~(row.session_id = session_id /\ row.id \in keptIds))

\* DELETE FROM messages WHERE session_id = ? AND id NOT IN
\*   (SELECT id ... WHERE session_id = ? ORDER BY created_at DESC LIMIT ?)
trim_to_limit(d, session_id, limit) ==
    LET kept == NewestByCreatedAt(d, session_id, limit)
        keptIds == {kept[i].id : i \in 1..Len(kept)}
    IN  SelectSeq(d, LAMBDA row : ~(row.session_id = session_id /\ row.id \notin keptIds))

\* ------------------------------------------------------------- StoreSpec

NoCall == [op |-> "none", session_id |-> "s1", limit |-> 0,
           rows |-> << >>, before |-> << >>]

\* seq, session_id: the inbound message it handled; status: "returned" or
\* "raised"; text: the returned string; error: what was raised; exhausted: the
\* loop ended without a tool-free response; count: the turn count
\* add_interaction read; last_content: the content of the last model
\* response; calls, tool_errors: llmCalls and toolErrors when it ended;
\* read_upto: the AUTOINCREMENT counter when it read the recent history.
NoResult == [seq |-> 0, session_id |-> "s1", status |-> "none", text |-> "", error |-> "none", exhausted |-> FALSE, count |-> 0, last_content |-> None, calls |-> 0, tool_errors |-> 0, read_upto |-> 0]

\* seq, session_id, author, user_input: the Discord message; memory_user: the
\* user_id of the MemoryManager that serves it; read_upto, read_count: the
\* AUTOINCREMENT counter when the recent history was read, and the number of
\* turns read.
NoInbound == [seq |-> 0, session_id |-> "s1", author |-> "u1", user_input |-> "", memory_user |-> "u1", read_upto |-> 0, read_count |-> 0]

\* The state of a process that has received no Discord message yet.
AgentInit ==
    /\ ltm = << >>
    /\ ltmNext = 1
    /\ agents = [s \in Sessions |-> None]
    /\ arrived = 0
    /\ pc = [r \in Reqs |-> "idle"]
    /\ inbound = [r \in Reqs |-> NoInbound]
    /\ messages = [r \in Reqs |-> << >>]
    /\ llmCalls = [r \in Reqs |-> 0]
    /\ toolErrors = [r \in Reqs |-> 0]
    /\ result = NoResult
    /\ reply = None

StoreInit ==
    /\ db = << >>
    /\ nextId = 1
    /\ clock = 0
    /\ startClock = 0
    /\ last = NoCall
    /\ AgentInit

\* The wall clock reaches the next second.
Tick ==
    /\ clock < MaxClock
    /\ clock' = clock + 1
    /\ UNCHANGED <<db, nextId, last, agentVars>>

\* The role a conversation's next turn has: user and assistant alternate.
NextRole(d, s) == IF get_message_count(d, s) % 2 = 0 THEN "user" ELSE "assistant"

StoreAdd ==
    \E s \in Sessions :
        /\ nextId <= MaxRows
        /\ db' = add_message(db, nextId, clock, s, "u1", NextRole(db, s), "m", 0)
        /\ nextId' = nextId + 1
        /\ last' = [op |-> "add", session_id |-> s, limit |-> 0,
                    rows |-> << >>, before |-> << >>]
        /\ UNCHANGED <<clock, agentVars>>

StoreRecent ==
    \E s \in Sessions, limit \in 0..MaxLimit :
        /\ last' = [op |-> "recent", session_id |-> s, limit |-> limit,
                    rows |-> RecentRows(db, s, limit), before |-> << >>]
        /\ UNCHANGED <<db, nextId, clock, agentVars>>

StoreTrim ==
    \E s \in Sessions, limit \in 0..MaxLimit :
        /\ db' = trim_to_limit(db, s, limit)
        /\ last' = [op |-> "trim", session_id |-> s, limit |-> limit,
                    rows |-> << >>, before |-> db]
        /\ UNCHANGED <<nextId, clock, agentVars>>

StoreClear ==
    \E s \in Sessions :
        /\ db' = clear_history(db, s)
        /\ last' = [op |-> "clear", session_id |-> s, limit |-> 0,
                    rows |-> << >>, before |-> << >>]
        /\ UNCHANGED <<nextId, clock, agentVars>>

StoreNext == Tick \/ StoreAdd \/ StoreRecent \/ StoreTrim \/ StoreClear

StoreSpec == StoreInit /\ [][StoreNext]_vars

\* ------------------------------------------------- LongTermMemory (Qdrant)

\* save_memory: upsert of one point under a fresh uuid; payload is text, type,
\* importance plus the caller's metadata.  An upsert under the id of a stored
\* point would replace that point.
save_memory(lt, point_id, text, memory_type, importance, metadata) ==
    LET point == [id |-> point_id, text |-> text, type |-> memory_type,
                  importance |-> importance,
                  user_id |-> metadata.user_id, category |-> metadata.category,
                  session_id |-> metadata.session_id,
                  maintenance_reason |-> metadata.maintenance_reason]
    IN  IF \E i \in 1..Len(lt) : lt[i].id = point_id
        THEN [i \in 1..Len(lt) |-> IF lt[i].id = point_id THEN point ELSE lt[i]]
        ELSE Append(lt, point)

\* Python's None where a point id is expected.
NoId == -1

\* save_memory has no return statement: the caller gets None, not point_id.
save_memory_returns(point_id) == NoId

\* Mutant: uuid4 repeats the id of a stored point.
FreshIds_Reused(lt) == {lt[i].id : i \in 1..Len(lt)}

\* uuid.uuid4(): an id no stored point has.  Two outcomes stand for all: one
\* that sorts before every stored id and one that sorts after.
FreshIds(lt) ==
    IF lt = << >> THEN {100}
    ELSE LET ids == {lt[i].id : i \in 1..Len(lt)}
         IN  {(CHOOSE a \in ids : \A b \in ids : a <= b) - 1,
              (CHOOSE a \in ids : \A b \in ids : a >= b) + 1}

\* delete_memory(memory_id): delete with points_selector=[memory_id].
delete_memory(lt, memory_id) == SelectSeq(lt, LAMBDA p : p.id # memory_id)

Texts(points) == [i \in 1..Len(points) |-> points[i].text]

\* client.scroll: the points in ascending order of point id.
ScrollOrder(points) ==
    LET n == Len(points)
        placed == {<<Cardinality({j \in 1..n : points[j].id <= points[i].id}), i>>
                    : i \in 1..n}
    IN  [k \in 1..n |-> points[(CHOOSE p \in placed : p[1] = k)[2]]]

\* get_by_filter({"type": ...}, limit): scroll with an exact match on type.
get_by_type(lt, memory_type, limit) ==
    Texts(Limit(ScrollOrder(SelectSeq(lt, LAMBDA p : p.type = memory_type)), limit))

\* get_by_filter({"user_id": ..., "type": ...}, limit): scroll with an exact
\* match on both payload fields.
get_by_user_and_type(lt, user_id, memory_type, limit) ==
    Texts(Limit(ScrollOrder(SelectSeq(lt, LAMBDA p : p.user_id = user_id /\ p.type = memory_type)), limit))

\* get_memory_stats(user_id): the number of texts get_by_filter returns per
\* type, with its default limit of 100.
get_memory_stats(lt, user_id) ==
    LET found(t) == IF user_id = None THEN get_by_type(lt, t, StatsLimit)
                    ELSE get_by_user_and_type(lt, user_id, t, StatsLimit)
    IN  [core_facts |-> Len(found("core_fact")), episodic |-> Len(found("episodic")),
         general |-> Len(found("general"))]

\* get_core_facts(user_id, limit)
get_core_facts(lt, user_id, limit) ==
    get_by_user_and_type(lt, user_id, "core_fact", limit)

\* Cosine similarity of the embeddings of two texts, as a rank: the same text
\* is nearest to itself.
Similarity(query, text) == IF query = text THEN 2 ELSE 1

\* query_points: points ranked by descending similarity to the query, points
\* of equal similarity in storage order.
RankBySimilarity(points, query) ==
    LET n == Len(points)
        placed == {<<Cardinality({j \in 1..n :
                        \/ Similarity(query, points[j].text) > Similarity(query, points[i].text)
                        \/ (Similarity(query, points[j].text) = Similarity(query, points[i].text)
                            /\ j <= i)}), i>>
                    : i \in 1..n}
    IN  [k \in 1..n |-> points[(CHOOSE p \in placed : p[1] = k)[2]]]

\* search_memories(query, limit, memory_type): query_points ranked by
\* similarity, filtered on type when memory_type is given; texts only.
search_memories(lt, query, limit, memory_type) ==
    LET eligible == IF memory_type = None THEN lt
                    ELSE SelectSeq(lt, LAMBDA p : p.type = memory_type)
    IN  Texts(Limit(RankBySimilarity(eligible, query), limit))

\* ---------------------------------------------------------- MemoryManager

InSeq(x, seq) == \E i \in 1..Len(seq) : seq[i] = x

\* Mutant: the search runs for every call.
WantsSearch_Always(user_input) == TRUE

\* `if user_input:` -- None and the empty string are falsy.
WantsSearch(user_input) == user_input # None /\ user_input # ""

\* Mutant: the hits are kept as they are.
DedupHits_Off(hits, facts) == hits

\* [h for h in hits if h not in core_facts]
DedupHits(hits, facts) == SelectSeq(hits, LAMBDA h : ~InSeq(h, facts))

\* get_context's local core_facts.
core_facts(lt, user_id) == get_core_facts(lt, user_id, CoreFactLimit)

\* get_context's local hits: the search is not restricted to the user.
hits(lt, user_input) ==
    IF WantsSearch(user_input) THEN search_memories(lt, user_input, SearchLimit, None)
    ELSE << >>

\* get_context's local unique_hits.
unique_hits(lt, user_id, user_input) ==
    DedupHits(hits(lt, user_input), core_facts(lt, user_id))

\* get_context(user_input): the lines later joined with "\n".
get_context(lt, user_id, user_input) ==
    LET facts == core_facts(lt, user_id)
        unique == DedupHits(hits(lt, user_input), facts)
    IN  (IF facts # << >> THEN <<"## CORE FACTS">> \o facts ELSE << >>)
        \o (IF unique # << >> THEN <<"## RELEVANT PAST MEMORIES">> \o unique ELSE << >>)

\* get_short_term_memory()
get_short_term_memory(d, session_id) ==
    get_recent_messages(d, session_id, HistoryLimit)

\* GroqClient.chat_completion(self, messages, tools=None): the keyword
\* arguments the method accepts.
ChatCompletionParams == {"messages", "tools"}

\* The keyword arguments maintain_temporal_diary passes to chat_completion.
DiaryCallKwargs == {"messages", "model"}

\* Lines 67-74: the turns whose text makes up the conversation trace given
\* to the summarizer.
ConversationRows(d, session_id) == RecentRows(d, session_id, DiaryWindow)

\* Lines 95-108, reached when chat_completion has returned a response whose
\* content is `diary`: `if diary_entry:` save the summary record, then trim.
SaveAndTrim(st, session_id, reason, diary) ==
    IF diary = None \/ diary = "" THEN st
    ELSE [db |-> trim_to_limit(st.db, session_id, DiaryKeep),
          ltm |-> save_memory(st.ltm, st.ltmNext, diary, "summary", DiaryImportance,
                              [user_id |-> None, category |-> None,
                               session_id |-> session_id,
                               maintenance_reason |-> reason]),
          ltmNext |-> st.ltmNext + 1]

\* What the summarizer may reply: content None, empty text, or a diary entry.
Diaries == {None, "", "diary"}

\* Mutant: the history is trimmed before the summarizer is called.
maintain_temporal_diary_TrimsFirst(st, session_id, reason, diary) ==
    [st EXCEPT !.db = trim_to_limit(st.db, session_id, DiaryKeep)]

\* maintain_temporal_diary(reason): st is [db, ltm, ltmNext].  With no recent
\* messages it returns at once.  The call of chat_completion binds its
\* keyword arguments before anything is awaited; an unexpected keyword raises
\* TypeError inside the try block, which logs and returns: either way the
\* stores stay as they are.  `diary` is the summarizer's reply when the call
\* is accepted.
maintain_temporal_diary(st, session_id, reason, diary) ==
    LET recent == get_recent_messages(st.db, session_id, DiaryWindow)
    IN  IF ~(DiaryCallKwargs \subseteq ChatCompletionParams) \/ recent = << >> THEN st
        ELSE SaveAndTrim(st, session_id, reason, diary)

\* How a maintain_temporal_diary call that raised nothing went.
MaintenanceOutcome(d, session_id, diary) ==
    IF get_message_count(d, session_id) = 0 THEN "skipped"
    ELSE IF ~(DiaryCallKwargs \subseteq ChatCompletionParams) THEN "failed"
    ELSE IF diary = None \/ diary = "" THEN "skipped"
    ELSE "done"

\* Where the short-term store may fail during add_interaction: in the first
\* or second INSERT, in the count, or in maintain_temporal_diary's read of the
\* recent turns (line 67, before the try block).
Faults == {"none", "add1", "add2", "count", "recent"}

\* How the persisting of an interaction may go: the store fault, and the
\* seconds between the two INSERTs.
Persists ==
    {[fault |-> f, gap |-> 0] : f \in Faults} \cup {[fault |-> "none", gap |-> 1]}

\* Mutant: the assistant turn is written first.
InteractionRoles_Swapped == <<"assistant", "user">>

\* The roles of the two add_message calls of add_interaction, in call order.
InteractionRoles == <<"user", "assistant">>

\* Mutant: an INSERT of another invocation runs between the two.
SecondInsertId_Interleaved(nid) == nid + 2

\* The AUTOINCREMENT id of add_interaction's second INSERT, the first having
\* got `nid`: lines 54 and 55 are synchronous calls with no await between
\* them, so no other coroutine of the event loop inserts in between.
SecondInsertId(nid) == nid + 1

\* add_interaction(user_msg, bot_msg): two INSERTs, each committed on its
\* own, then the count and the milestone check.  `gap` is the number of
\* seconds the clock advanced between the two INSERTs.  The result holds the
\* new stores and the exception that left the method, if any; content is
\* NOT NULL, so a None bot_msg fails the second INSERT.  `maintenance` tells
\* how maintain_temporal_diary went: "not_run", "failed" (it raised, or it
\* logged an error and returned), "done" (summary saved and history
\* trimmed) or "skipped" (nothing to summarize, or an empty summary).
add_interaction(d, nid, now, gap, lt, lnext, session_id, user_id, user_msg, bot_msg, fault, diary, by) ==
    LET d1 == add_message(d, nid, now, session_id, user_id, InteractionRoles[1], user_msg, by)
        d2 == add_message(d1, SecondInsertId(nid), now + gap, session_id, user_id,
                          InteractionRoles[2], bot_msg, by)
        count == get_message_count(d2, session_id)
        kept == [db |-> d2, ltm |-> lt, ltmNext |-> lnext]
        st == IF count > Milestone
              THEN maintain_temporal_diary(kept, session_id, "milestone_reached", diary)
              ELSE kept
    IN  IF fault = "add1"
        THEN [db |-> d, nextId |-> nid, ltm |-> lt, ltmNext |-> lnext,
              error |-> "store", count |-> 0, maintenance |-> "not_run"]
        ELSE IF fault = "add2"
        THEN [db |-> d1, nextId |-> nid + 1, ltm |-> lt, ltmNext |-> lnext,
              error |-> "store", count |-> 0, maintenance |-> "not_run"]
        ELSE IF bot_msg = None
        THEN [db |-> d1, nextId |-> nid + 1, ltm |-> lt, ltmNext |-> lnext,
              error |-> "integrity", count |-> 0, maintenance |-> "not_run"]
        ELSE IF fault = "count"
        THEN [db |-> d2, nextId |-> nid + 2, ltm |-> lt, ltmNext |-> lnext,
              error |-> "store", count |-> 0, maintenance |-> "not_run"]
        ELSE IF fault = "recent" /\ count > Milestone
        THEN [db |-> d2, nextId |-> nid + 2, ltm |-> lt, ltmNext |-> lnext,
              error |-> "store", count |-> count, maintenance |-> "failed"]
        ELSE [db |-> st.db, nextId |-> nid + 2, ltm |-> st.ltm, ltmNext |-> st.ltmNext,
              error |-> "none", count |-> count,
              maintenance |-> IF count <= Milestone THEN "not_run"
                              ELSE MaintenanceOutcome(d2, session_id, diary)]

\* ---------------------------------------------------- tools (src/skills)

\* registry._tools: the names get_tool resolves.
ToolNames == {"roll_dice", "save_memory", "forget_recent_conversation", "admin_reload_skills"}

\* registry.get_tool(name): the callable, or None.
get_tool(name) == IF name \in ToolNames THEN name ELSE None

\* config.OWNER_ID: no message author of the model is the owner.
OWNER_ID == "owner"

\* inspect.signature(func).parameters of each tool.
Declares(name) ==
    IF name = "roll_dice" THEN {"sides"}
    ELSE IF name = "save_memory"
    THEN {"user_id", "content", "session_id", "memory_type", "category"}
    ELSE IF name = "forget_recent_conversation" THEN {"user_id", "session_id"}
    ELSE IF name = "admin_reload_skills" THEN {"user_id"}
    ELSE {}

\* The parameters without a default.
Required(name) ==
    IF name = "save_memory" THEN {"user_id", "content", "session_id"}
    ELSE IF name = "forget_recent_conversation" THEN {"user_id", "session_id"}
    ELSE IF name = "admin_reload_skills" THEN {"user_id"}
    ELSE {}

\* The arguments the agent fills in itself.
SessionScoped == {"user_id", "session_id"}

\* What the model may request.  `arguments` is the JSON payload: "malformed"
\* does not parse; the others parse to the named keyword arguments.
Call(id, name, arguments) == [id |-> id, name |-> name, arguments |-> arguments]

JsonLoads(arguments) == IF arguments = "malformed" THEN "JSONDecodeError" ELSE "ok"

\* args = json.loads(arguments_json), for the payloads that parse.
ParsedArgs(arguments) ==
    IF arguments = "sides=0" THEN [sides |-> "0"]
    ELSE IF arguments = "sides=6" THEN [sides |-> "6"]
    ELSE IF arguments = "content=fact,memory_type=core,user_id=u9,session_id=s2"
    THEN [content |-> "fact", memory_type |-> "core", user_id |-> "u9", session_id |-> "s2"]
    ELSE IF arguments = "user_id=owner" THEN [user_id |-> OWNER_ID]
    ELSE << >>

\* Mutant: a value the model supplied is kept.
InjectArgs_ModelWins(name, args, user_id, session_id) ==
    [k \in DOMAIN args \cup (Declares(name) \cap SessionScoped) |->
        IF k \in DOMAIN args THEN args[k]
        ELSE IF k = "user_id" THEN user_id ELSE session_id]

\* Lines 74-79: args["user_id"] and args["session_id"] are overwritten with
\* the MemoryManager's values when the tool's signature has the parameter.
InjectArgs(name, args, user_id, session_id) ==
    [k \in DOMAIN args \cup (Declares(name) \cap SessionScoped) |->
        IF k = "user_id" /\ k \in Declares(name) THEN user_id
        ELSE IF k = "session_id" /\ k \in Declares(name) THEN session_id
        ELSE args[k]]

\* The keyword arguments func(**args) is called with.
ReceivedKeys(call) ==
    DOMAIN ParsedArgs(call.arguments) \cup (Declares(call.name) \cap SessionScoped)

\* The exception a tool call ends with, "none" when it returns:
\*   json.loads fails on a malformed payload;
\*   validate_call rejects unexpected and missing keyword arguments;
\*   roll_dice(sides=0) raises ValueError in random.randint(1, 0);
\*   save_memory and forget_recent_conversation catch everything themselves.
ToolException(call) ==
    IF JsonLoads(call.arguments) # "ok" THEN "JSONDecodeError"
    ELSE IF get_tool(call.name) = None THEN "none"
    ELSE IF ~(ReceivedKeys(call) \subseteq Declares(call.name)) THEN "ValidationError"
    ELSE IF ~(Required(call.name) \subseteq ReceivedKeys(call)) THEN "ValidationError"
    ELSE IF call.name = "roll_dice" /\ call.arguments = "sides=0" THEN "ValueError"
    ELSE "none"

\* Mutant: only the JSON error is caught.
ExceptCatches_JsonOnly(exc) == exc = "JSONDecodeError"

\* `except Exception as e` around the tool call.
ExceptCatches(exc) == exc \in {"JSONDecodeError", "ValueError", "TypeError", "ValidationError"}

\* str(tool_result) for one call; `args` is what the tool was called with.
ToolResultText(call, args) ==
    IF ToolException(call) # "none" THEN "Error executing tool"
    ELSE IF get_tool(call.name) = None THEN "Error: Tool not found."
    ELSE IF call.name = "roll_dice" THEN "Rolled"
    ELSE IF call.name = "save_memory" THEN "Saved"
    ELSE IF call.name = "admin_reload_skills"
    THEN (IF args.user_id = OWNER_ID THEN "System Reloaded" ELSE "ACCESS DENIED")
    ELSE "Short-term memory wiped"

\* Whether `func(**args)` is reached for the call.
Called(call) == JsonLoads(call.arguments) = "ok" /\ get_tool(call.name) # None

\* The arguments of one call after injection, empty when no tool is called.
ReceivedArgs(call, session_id, user_id) ==
    IF ~Called(call) THEN << >>
    ELSE InjectArgs(call.name, ParsedArgs(call.arguments), user_id, session_id)

\* The effect of one tool call on the stores; st is [db, ltm, ltmNext].  The
\* memory tools work on the session and user they are called with.
ToolEffect(st, call, session_id, user_id) ==
    LET args == ReceivedArgs(call, session_id, user_id) IN
    IF ToolException(call) # "none" \/ get_tool(call.name) = None THEN st
    ELSE IF call.name = "save_memory"
    THEN LET core == "memory_type" \in DOMAIN args /\ args.memory_type = "core" IN
         [st EXCEPT !.ltm = save_memory(st.ltm, st.ltmNext, args.content,
                                        IF core THEN "core_fact" ELSE "episodic",
                                        IF core THEN 10 ELSE 5,
                                        [user_id |-> args.user_id, category |-> "general",
                                         session_id |-> None,
                                         maintenance_reason |-> None]),
                    !.ltmNext = st.ltmNext + 1]
    ELSE IF call.name = "forget_recent_conversation"
    THEN [st EXCEPT !.db = clear_history(st.db, args.session_id)]
    ELSE st

\* The tool message of one call.  `called` and `received` are not part of
\* the message: they record whether a tool was called, and with which
\* keyword arguments.
ToolMessage(call, session_id, user_id) ==
    LET args == ReceivedArgs(call, session_id, user_id) IN
    [role |-> "tool", content |-> ToolResultText(call, args), tool_calls |-> << >>,
     tool_call_id |-> call.id, name |-> call.name, ctx |-> << >>,
     called |-> Called(call), received |-> args]

IsErrorText(content) == content \in {"Error executing tool", "Error: Tool not found."}

\* How many of the tool-result messages carry an error string.
ErrorResults(out) == Cardinality({i \in 1..Len(out) : IsErrorText(out[i].content)})

\* `for tool_call in msg.tool_calls`: run the calls in order.  acc is
\* [db, ltm, ltmNext, out, raised]: out collects the tool-result messages,
\* raised names an exception the except clause did not catch (the loop stops
\* there and the exception leaves process_message).
RECURSIVE RunToolCalls(_, _, _, _)
RunToolCalls(acc, calls, session_id, user_id) ==
    IF calls = << >> \/ acc.raised # "none" THEN acc
    ELSE LET call == Head(calls)
             exc == ToolException(call)
             st == ToolEffect([db |-> acc.db, ltm |-> acc.ltm, ltmNext |-> acc.ltmNext],
                              call, session_id, user_id)
         IN  IF exc # "none" /\ ~ExceptCatches(exc)
             THEN [acc EXCEPT !.raised = exc]
             ELSE RunToolCalls([db |-> st.db, ltm |-> st.ltm, ltmNext |-> st.ltmNext,
                                out |-> Append(acc.out, ToolMessage(call, session_id, user_id)),
                                raised |-> "none"],
                               Tail(calls), session_id, user_id)

\* ------------------------------------------------------------------ Agent

Message(role, content) ==
    [role |-> role, content |-> content, tool_calls |-> << >>,
     tool_call_id |-> None, name |-> None, ctx |-> << >>]

SystemMessage(context_data) ==
    [role |-> "system", content |-> "SYSTEM_PROMPT", tool_calls |-> << >>,
     tool_call_id |-> None, name |-> None, ctx |-> context_data]

\* response.choices[0].message
ModelMessage(content, tool_calls) ==
    [role |-> "assistant", content |-> content, tool_calls |-> tool_calls,
     tool_call_id |-> None, name |-> None, ctx |-> << >>]

HistoryMessages(turns) ==
    [i \in 1..Len(turns) |-> Message(turns[i].role, turns[i].content)]

\* Responses without tool calls: `content` may be None, empty or text.
FinalResponses == {ModelMessage(c, << >>) : c \in {None, "", "answer"}}

\* Responses that carry tool calls, with or without a "thought" as content.
ToolResponses ==
    { ModelMessage("thought", <<Call("c1", "no_such_tool", "{}"),
                                Call("c2", "roll_dice", "malformed"),
                                Call("c3", "roll_dice", "sides=0"),
                                Call("c4", "roll_dice", "sides=6")>>),
      ModelMessage(None, <<Call("c1", "save_memory",
                                "content=fact,memory_type=core,user_id=u9,session_id=s2"),
                           Call("c2", "forget_recent_conversation", "{}"),
                           Call("c3", "admin_reload_skills", "user_id=owner")>>) }

Saves(msg) == Cardinality({i \in 1..Len(msg.tool_calls) : msg.tool_calls[i].name = "save_memory"})

\* The responses with tool calls the model may give to the call of a round:
\* the memory tools are requested in the first round.
ToolResponsesAt(round) ==
    {msg \in ToolResponses : Saves(msg) = 0 \/ round = 1}

FailureReply == "My neural links are fuzzy. Try again?"

\* Mutant: the except clause of on_message sends nothing.
on_message_reply_Silent(status, text) == IF status \in {"raised", "cancelled"} THEN None ELSE text

\* on_message, steps 6-8: the response is sent; any exception is answered
\* with the generic failure reply; a CancelledError is no Exception and passes
\* the except clause, so nothing is sent.
on_message_reply(status, text) ==
    IF status = "raised" THEN FailureReply ELSE IF status = "cancelled" THEN None ELSE text

\* Mutant: on exhaustion the last response's content is returned.
ExhaustedResponse_LastContent(final_response, msg) ==
    IF msg.content = None THEN "" ELSE msg.content

\* The loop ran out: final_response still holds its initial "" (it is only
\* assigned on a tool-free response).
ExhaustedResponse(final_response, msg) == final_response

\* message.author of each inbound message.
Author(r) == IF r = "r1" THEN "u1" ELSE "u2"

\* message.channel of each inbound message: both authors write to the same
\* channel.
SessionsOf(r) == {"s1"}

\* Mutant: a message waits until no other invocation is in flight.
MayProcess_Locked(r) == \A q \in Reqs : pc[q] = "idle"

\* on_message takes up a message whatever else is in flight: nothing between
\* the cache lookup and process_message waits for another invocation.
MayProcess(r) == pc[r] = "idle"

\* on_message accepts the message and, further down, awaits the model.
\* (TakesUp is the control part of Arrives.)
\*
\* on_message up to the first chat_completion call: the Agent/MemoryManager
\* pair of the session is created on first use, get_context and the recent
\* history are read, and the first model call is issued.
TakesUp(r, most) ==
    /\ MayProcess(r)
    /\ arrived < most
    /\ arrived' = arrived + 1
    /\ pc' = [pc EXCEPT ![r] = "llm"]

Arrives(r, most) ==
    \E s \in SessionsOf(r) :
      LET author == Author(r) IN
        /\ TakesUp(r, most)
        /\ agents' = IF agents[s] = None THEN [agents EXCEPT ![s] = author] ELSE agents
        /\ inbound' = [inbound EXCEPT ![r] =
                          [seq |-> arrived + 1, session_id |-> s, author |-> author,
                           user_input |-> "hi", memory_user |-> agents'[s],
                           read_upto |-> nextId,
                           read_count |-> Len(get_short_term_memory(db, s))]]
        /\ messages' = [messages EXCEPT ![r] =
                          <<SystemMessage(get_context(ltm, agents'[s], "hi"))>>
                          \o HistoryMessages(get_short_term_memory(db, s))
                          \o <<Message("user", "hi")>>]
        /\ llmCalls' = [llmCalls EXCEPT ![r] = 1]
        /\ result' = NoResult
        /\ reply' = None
        /\ UNCHANGED <<storeVars, ltm, ltmNext, startClock, toolErrors>>

OnMessage(r) == Arrives(r, MaxInbound)

\* on_message ends: what process_message did is recorded, the reply is sent
\* and the invocation's locals are gone.
Ends(r, status, text, error, exhausted, count, last_content, tool_errors) ==
    /\ result' = [seq |-> inbound[r].seq, session_id |-> inbound[r].session_id,
                  status |-> status, text |-> IF status = "returned" THEN text ELSE "",
                  error |-> error, exhausted |-> exhausted, count |-> count,
                  last_content |-> last_content, calls |-> llmCalls[r],
                  tool_errors |-> tool_errors, read_upto |-> inbound[r].read_upto]
    /\ reply' = on_message_reply(status, text)
    /\ pc' = [pc EXCEPT ![r] = "idle"]
    /\ inbound' = [inbound EXCEPT ![r] = NoInbound]
    /\ messages' = [messages EXCEPT ![r] = << >>]
    /\ llmCalls' = [llmCalls EXCEPT ![r] = 0]
    /\ toolErrors' = [toolErrors EXCEPT ![r] = 0]

\* The awaited chat_completion raises (network / API failure): the exception
\* leaves process_message; on_message answers with the failure reply.
LLMFails(r) ==
    /\ pc[r] = "llm"
    /\ Ends(r, "raised", "", "llm", FALSE, 0, None, toolErrors[r])
    /\ UNCHANGED <<storeVars, ltm, ltmNext, startClock, agents, arrived>>

\* Mutant: the user's turn is stored before the model is called.
CancelEffect_UserTurnSaved(d, nid, now, session_id, user_id, user_input, by) ==
    add_message(d, nid, now, session_id, user_id, "user", user_input, by)

\* What a cancelled process_message has written to the short-term store: the
\* CancelledError raised by the awaited chat_completion unwinds past line 103,
\* the only place where the loop writes.
CancelEffect(d, nid, now, session_id, user_id, user_input, by) == d

\* The task is cancelled while it awaits chat_completion (shutdown).
Cancelled(r) ==
    LET s == inbound[r].session_id
        d == CancelEffect(db, nextId, clock, s, agents[s], inbound[r].user_input,
                          inbound[r].seq)
    IN  /\ pc[r] = "llm"
        /\ db' = d
        /\ nextId' = nextId + (Len(d) - Len(db))
        /\ Ends(r, "cancelled", "", "cancel", FALSE, 0, None, toolErrors[r])
        /\ UNCHANGED <<clock, last, ltm, ltmNext, startClock, agents, arrived>>

\* Mutant: the user's input is stored as the assistant turn.
InteractionArgs_Echo(user_input, final_response) == <<user_input, user_input>>

\* The arguments of `self.memory.add_interaction(user_input, final_response)`:
\* the accumulated `messages` list is not among them.
InteractionArgs(user_input, final_response) == <<user_input, final_response>>

\* Lines 102-104 and the rest of on_message: persist, return, reply.
Finish(r, st, final_response, exhausted, last_content, fault, gap, tool_errors) ==
    LET s == inbound[r].session_id
        turn == InteractionArgs(inbound[r].user_input, final_response)
        saved == add_interaction(st.db, nextId, clock, gap, st.ltm, st.ltmNext, s, agents[s],
                                 turn[1], turn[2], fault, None, inbound[r].seq)
        status == IF saved.error = "none" THEN "returned" ELSE "raised"
    IN  /\ db' = saved.db
        /\ nextId' = saved.nextId
        /\ clock' = clock + gap
        /\ ltm' = saved.ltm
        /\ ltmNext' = saved.ltmNext
        /\ Ends(r, status, final_response, saved.error, exhausted, saved.count,
                last_content, tool_errors)

\* The model answers without tool calls: its content is the final response.
LLMAnswersWith(r, responses, persists) ==
    \E msg \in responses, how \in persists :
        /\ pc[r] = "llm"
        /\ msg.content # "answer" => how = [fault |-> "none", gap |-> 0]
        /\ clock + how.gap <= startClock + MaxTicks
        /\ Finish(r, [db |-> db, ltm |-> ltm, ltmNext |-> ltmNext], msg.content,
                  FALSE, msg.content, how.fault, how.gap, toolErrors[r])
        /\ UNCHANGED <<last, startClock, agents, arrived>>

LLMAnswers(r) == LLMAnswersWith(r, FinalResponses, Persists)

\* The model requests tools: its message is appended, every call is run and
\* answered with a tool message; then the next round's model call is issued,
\* or, after the last round, the interaction is persisted and returned.
\* Mutant: the tool results are appended before the message that asked for them.
RoundMessages_ResultsFirst(msg, out) == out \o <<msg>>

\* What one round with tool calls appends to `messages`: msg (line 60), then
\* the tool-result message of each call in turn (lines 93-100).
RoundMessages(msg, out) == <<msg>> \o out

LLMCallsToolsWith(r, responses, persists) ==
    \E msg \in responses, how \in persists :
        LET s == inbound[r].session_id
            ran == RunToolCalls([db |-> db, ltm |-> ltm, ltmNext |-> ltmNext,
                                 out |-> << >>, raised |-> "none"],
                                msg.tool_calls, s, agents[s])
            more == llmCalls[r] < LoopBound
            errors == toolErrors[r] + ErrorResults(ran.out)
        IN  /\ pc[r] = "llm"
            /\ IF ran.raised # "none"
               THEN /\ db' = ran.db /\ ltm' = ran.ltm /\ ltmNext' = ran.ltmNext
                    /\ Ends(r, "raised", "", "tool", FALSE, 0, msg.content, errors)
                    /\ UNCHANGED <<nextId, clock>>
               ELSE IF more
               THEN /\ how = [fault |-> "none", gap |-> 0]
                    /\ db' = ran.db /\ ltm' = ran.ltm /\ ltmNext' = ran.ltmNext
                    /\ messages' = [messages EXCEPT ![r] = messages[r] \o RoundMessages(msg, ran.out)]
                    /\ llmCalls' = [llmCalls EXCEPT ![r] = llmCalls[r] + 1]
                    /\ toolErrors' = [toolErrors EXCEPT ![r] = errors]
                    /\ result' = NoResult
                    /\ reply' = None
                    /\ UNCHANGED <<nextId, clock, pc, inbound>>
               ELSE /\ clock + how.gap <= startClock + MaxTicks
                    /\ Finish(r, ran, ExhaustedResponse("", msg), TRUE, msg.content,
                              how.fault, how.gap, errors)
            /\ UNCHANGED <<last, startClock, agents, arrived>>

LLMCallsTools(r) == LLMCallsToolsWith(r, ToolResponsesAt(llmCalls[r]), Persists)

\* The initial rows of a session that already held `n` turns: interaction k
\* (turns 2k-1, 2k) was written in second pace * k.
PrefilledDb(n, pace) ==
    [i \in 1..n |->
        [id |-> i, session_id |-> "s1", user_id |-> "u1",
         role |-> IF i % 2 = 1 THEN "user" ELSE "assistant", content |-> "m",
         created_at |-> pace * ((i + 1) \div 2), by |-> 0]]

\* The state in which session s1 holds `n` turns and no message is in flight.
InitFrom(n) ==
    /\ db = PrefilledDb(n, 1)
    /\ nextId = n + 1
    /\ clock = n \div 2
    /\ startClock = n \div 2
    /\ last = NoCall
    /\ AgentInit

\* Turn counts of session s1 at Init: a new session, and one at the
\* maintenance threshold.
InitTurns == {0, 50}

Init == \E n \in InitTurns : InitFrom(n)

\* The wall clock reaches the next second.
ClockTick ==
    /\ clock < startClock + MaxTicks
    /\ clock' = clock + 1
    /\ result' = NoResult
    /\ reply' = None
    /\ UNCHANGED <<db, nextId, last, ltm, ltmNext, startClock, agents, arrived, pc,
                   inbound, messages, llmCalls, toolErrors>>

Next ==
    \/ ClockTick
    \/ \E r \in Reqs : OnMessage(r)
    \/ \E r \in Reqs : LLMFails(r)
    \/ \E r \in Reqs : Cancelled(r)
    \/ \E r \in Reqs : LLMAnswers(r)
    \/ \E r \in Reqs : LLMCallsTools(r)

Spec == Init /\ [][Next]_vars

\* ------------------------------------------------------------ ChannelSpec
\* Several messages of one channel, processed concurrently.

OnChannelMessage(r) == Arrives(r, MaxChannel)

\* The store works and the two INSERTs fall into the same second.
NoFault == [fault |-> "none", gap |-> 0]

\* The model answers with text.
ChannelAnswers(r) == LLMAnswersWith(r, {ModelMessage("answer", << >>)}, {NoFault})

\* The model requests tools in the first round only.
ChannelCallsTools(r) ==
    LLMCallsToolsWith(r, IF llmCalls[r] = 1 THEN ToolResponses ELSE {}, {NoFault})

ChannelNext ==
    \/ \E r \in Reqs : OnChannelMessage(r)
    \/ \E r \in Reqs : ChannelAnswers(r)
    \/ \E r \in Reqs : ChannelCallsTools(r)

ChannelSpec == Init /\ [][ChannelNext]_vars

\* ------------------------------------------------------------ ManagerSpec
\* MemoryManager.add_interaction called directly, several times, on sessions
\* that already hold InitTurns turns.

\* One add_interaction call of the MemoryManager of session s (user u1).
MgrAdd ==
    \E s \in Sessions, how \in Persists, bot_msg \in {"answer", None}, diary \in Diaries :
        LET saved == add_interaction(db, nextId, clock, how.gap, ltm, ltmNext, s, "u1",
                                     "hi", bot_msg, how.fault, diary, arrived + 1)
        IN  /\ arrived < MaxCalls
            /\ clock + how.gap <= startClock + MaxTicks
            /\ arrived' = arrived + 1
            /\ db' = saved.db
            /\ nextId' = saved.nextId
            /\ clock' = clock + how.gap
            /\ ltm' = saved.ltm
            /\ ltmNext' = saved.ltmNext
            /\ last' = [op |-> "add_interaction", session_id |-> s, call |-> arrived + 1,
                        bot_msg |-> bot_msg, error |-> saved.error, count |-> saved.count,
                        maintenance |-> saved.maintenance, first_id |-> nextId,
                        count_before |-> get_message_count(db, s)]
            /\ UNCHANGED <<startClock, agents, pc, inbound, messages, llmCalls,
                           toolErrors, result, reply>>

MgrNext == ClockTick \/ MgrAdd

\* Turn counts of session s1 at MgrInit: a new session, one that reaches the
\* maintenance threshold with the next interaction, and one at the threshold.
MgrTurns == {0, 48, 50}

MgrInit == \E n \in MgrTurns : InitFrom(n)

ManagerSpec == MgrInit /\ [][MgrNext]_vars

\* ------------------------------------------------ browse_diary (skills)

\* payload["date"]: save_memory stamps datetime.now() as YYYY-MM-DD; every
\* save of a behaviour happens on the same day.
Today == "today"

RecordDate(p) == Today

\* browse_diary(user_id, session_id, date, query): the entries listed in the
\* returned text.  With a date: get_by_filter on user_id, type and date,
\* limit 10; with a query: search_memories over the summaries, limit 5;
\* with neither: get_by_filter on user_id and type, limit 5.
browse_diary(lt, user_id, date, query) ==
    IF date # None /\ date # ""
    THEN get_by_user_and_type(SelectSeq(lt, LAMBDA p : RecordDate(p) = date),
                              user_id, "summary", 10)
    ELSE IF query # None /\ query # ""
    THEN search_memories(lt, query, 5, "summary")
    ELSE get_by_user_and_type(lt, user_id, "summary", 5)

\* -------------------------------------------------------------- DiarySpec
\* The save-and-trim block of maintain_temporal_diary (lines 95-108) driven
\* directly, on the stores as add_interaction calls leave them.  In
\* ManagerSpec and Spec the block is never reached, because the call of
\* chat_completion before it raises TypeError.

\* Lines 67-108 for the session whose add_interaction call has just found the
\* count above the milestone, the summarizer having replied: `given` are the
\* turns in the conversation trace, `first` tells that no summary had been
\* saved before this run.
DiaryRun ==
    \E s \in {last.session_id}, diary \in Diaries :
        LET st == SaveAndTrim([db |-> db, ltm |-> ltm, ltmNext |-> ltmNext], s,
                              "milestone_reached", diary)
            given == ConversationRows(db, s)
        IN  /\ last.op = "add_interaction" /\ last.maintenance = "failed"
            /\ get_message_count(db, s) > Milestone
            /\ ltmNext <= MaxPoints
            /\ db' = st.db
            /\ ltm' = st.ltm
            /\ ltmNext' = st.ltmNext
            /\ last' = [op |-> "diary", session_id |-> s, diary |-> diary,
                        given |-> {given[i].id : i \in 1..Len(given)},
                        stored |-> {db[i].id : i \in 1..Len(db)},
                        first |-> \A i \in 1..Len(ltm) : ltm[i].type # "summary"]
            /\ UNCHANGED <<nextId, clock, startClock, agents, arrived, pc, inbound,
                           messages, llmCalls, toolErrors, result, reply>>

DiaryNext == MgrAdd \/ DiaryRun

\* Turn counts of session s1 at DiaryInit: one interaction below the
\* milestone, and at the milestone.
DiaryTurns == {48, 50}

DiaryInit == \E n \in DiaryTurns : InitFrom(n)

DiarySpec == DiaryInit /\ [][DiaryNext]_vars

\* ------------------------------------------------------------ OverlapSpec
\* add_interaction calls of the invocations of one channel, the call of
\* chat_completion at line 88 suspending until the summarizer replies (in
\* ManagerSpec and Spec it raises TypeError before it suspends).  While a
\* call is suspended there, pc is "diary" and `messages` holds the
\* conversation trace it read at line 67.

\* Lines 54-88: the two INSERTs, the count, and above the milestone the read
\* of the recent turns and the call of the summarizer.
DiaryBegins(r) ==
    \E how \in {[fault |-> "none", gap |-> 0], [fault |-> "none", gap |-> 1]} :
        LET s == "s1"
            saved == add_interaction(db, nextId, clock, how.gap, ltm, ltmNext, s, "u1",
                                     "hi", "answer", how.fault, None, arrived + 1)
            above == saved.count > Milestone
        IN  /\ pc[r] = "idle"
            /\ arrived < MaxChannel
            /\ clock + how.gap <= startClock + MaxTicks
            /\ arrived' = arrived + 1
            /\ db' = saved.db
            /\ nextId' = saved.nextId
            /\ clock' = clock + how.gap
            /\ pc' = [pc EXCEPT ![r] = IF above THEN "diary" ELSE "idle"]
            /\ inbound' = [inbound EXCEPT ![r] = [NoInbound EXCEPT !.seq = arrived + 1]]
            /\ messages' = [messages EXCEPT ![r] =
                                IF above THEN ConversationRows(saved.db, s) ELSE << >>]
            /\ last' = [op |-> "add_interaction", session_id |-> s, call |-> arrived + 1]
            /\ UNCHANGED <<ltm, ltmNext, startClock, agents, llmCalls, toolErrors,
                           result, reply>>

\* Lines 88-111: the summarizer replies to the call of r.
DiaryEnds(r) ==
    \E diary \in Diaries :
        LET st == SaveAndTrim([db |-> db, ltm |-> ltm, ltmNext |-> ltmNext], "s1",
                              "milestone_reached", diary)
        IN  /\ pc[r] = "diary"
            /\ db' = st.db
            /\ ltm' = st.ltm
            /\ ltmNext' = st.ltmNext
            /\ pc' = [pc EXCEPT ![r] = "idle"]
            /\ messages' = [messages EXCEPT ![r] = << >>]
            /\ last' = [op |-> "diary", session_id |-> "s1", call |-> inbound[r].seq]
            /\ UNCHANGED <<nextId, clock, startClock, agents, arrived, inbound, llmCalls,
                           toolErrors, result, reply>>

OverlapNext ==
    \/ ClockTick
    \/ \E r \in Reqs : DiaryBegins(r)
    \/ \E r \in Reqs : DiaryEnds(r)

OverlapSpec == DiaryInit /\ [][OverlapNext]_vars

\* ---------------------------------------------------------------- LtmSpec
\* The LongTermMemory class and MemoryManager.get_context driven directly,
\* over a collection that already holds InitFacts core facts of user u1.

NoMeta == [user_id |-> None, category |-> None, session_id |-> None,
           maintenance_reason |-> None]

\* The texts of the core facts stored before Init.
FactTexts == <<"f01", "f02", "f03", "f04", "f05", "f06", "f07", "f08",
               "f09", "f10", "f11", "f12", "f13", "f14", "f15">>

\* A collection holding n core facts of user u1, under ids 101 .. 100 + n.
PrefilledLtm(n) ==
    [i \in 1..n |->
        [id |-> 100 + i, text |-> FactTexts[i], type |-> "core_fact", importance |-> 10,
         user_id |-> "u1", category |-> "general", session_id |-> None,
         maintenance_reason |-> None]]

\* Core-fact counts of user u1 at Init (user u2 has none).
InitFacts == {15}

\* What callers save: text, type and the user_id in the metadata.
SaveInputs ==
    {[text |-> "fact", type |-> "core_fact", user_id |-> "u1"],
     [text |-> "fact", type |-> "core_fact", user_id |-> "u2"],
     [text |-> "fact", type |-> "episodic", user_id |-> "u1"],
     [text |-> "hi", type |-> "episodic", user_id |-> "u1"]}

Users == {"u1", "u2"}

Ids(lt) == {lt[i].id : i \in 1..Len(lt)}

LtmInit ==
    \E n \in InitFacts :
        /\ ltm = PrefilledLtm(n)
        /\ ltmNext = 1
        /\ db = << >>
        /\ nextId = 1
        /\ clock = 0
        /\ startClock = 0
        /\ last = NoCall
        /\ agents = [s \in Sessions |-> None]
        /\ arrived = 0
        /\ pc = [r \in Reqs |-> "idle"]
        /\ inbound = [r \in Reqs |-> NoInbound]
        /\ messages = [r \in Reqs |-> << >>]
        /\ llmCalls = [r \in Reqs |-> 0]
        /\ toolErrors = [r \in Reqs |-> 0]
        /\ result = NoResult
        /\ reply = None

ltmFrame == <<db, nextId, clock, startClock, agents, arrived, pc, inbound, messages, llmCalls, toolErrors, result, reply>>

LtSave ==
    \E in \in SaveInputs, point_id \in FreshIds(ltm) :
        /\ ltmNext <= MaxPoints
        /\ ltmNext' = ltmNext + 1
        /\ ltm' = save_memory(ltm, point_id, in.text, in.type,
                              IF in.type = "core_fact" THEN 10 ELSE 5,
                              [NoMeta EXCEPT !.user_id = in.user_id, !.category = "general"])
        /\ last' = [op |-> "save", id |-> point_id, text |-> in.text, type |-> in.type,
                    user_id |-> in.user_id, returned |-> save_memory_returns(point_id),
                    before |-> ltm]
        /\ UNCHANGED ltmFrame

\* The ids callers delete: any point saved after Init, the last of the points
\* stored before Init, and an id no point has.
DeleteTargets(lt) == {id \in Ids(lt) : id < 101 \/ id > 115} \cup {115, 0}

LtDelete ==
    \E memory_id \in DeleteTargets(ltm) :
        /\ ltmNext <= MaxPoints
        /\ ltmNext' = ltmNext + 1
        /\ ltm' = delete_memory(ltm, memory_id)
        /\ last' = [op |-> "delete", id |-> memory_id, before |-> ltm]
        /\ UNCHANGED ltmFrame

LtSearch ==
    \E query \in {"fact", "hi"}, memory_type \in {None, "episodic"} :
        /\ last' = [op |-> "search", query |-> query, type |-> memory_type,
                    texts |-> search_memories(ltm, query, SearchLimit, memory_type)]
        /\ UNCHANGED <<ltm, ltmNext, ltmFrame>>

LtCoreFacts ==
    \E u \in Users :
        /\ last' = [op |-> "get_core_facts", user_id |-> u,
                    texts |-> get_core_facts(ltm, u, CoreFactLimit)]
        /\ UNCHANGED <<ltm, ltmNext, ltmFrame>>

LtStats ==
    \E u \in Users \cup {None} :
        /\ last' = [op |-> "get_memory_stats", user_id |-> u,
                    stats |-> get_memory_stats(ltm, u)]
        /\ UNCHANGED <<ltm, ltmNext, ltmFrame>>

\* MemoryManager(session, u).get_context(user_input)
LtContext ==
    \E u \in Users, user_input \in {None, "", "fact", "hi"} :
        /\ last' = [op |-> "get_context", user_id |-> u, user_input |-> user_input,
                    context |-> get_context(ltm, u, user_input)]
        /\ UNCHANGED <<ltm, ltmNext, ltmFrame>>

\* ------------------------------------------------------------- DeleteSpec
\* The delete_memory_by_content tool driven directly, together with saves,
\* over a collection that holds records of u1 and a summary record, which
\* has no user_id.

NotFoundText == "No matching memory found to delete."

\* Mutant: query_points without the query_filter on user_id.
delete_memory_by_content_AnyUser(lt, user_id, search_query) ==
    LET found == Limit(RankBySimilarity(lt, search_query), 1)
    IN  IF found = << >> THEN [ltm |-> lt, returned |-> NotFoundText]
        ELSE [ltm |-> delete_memory(lt, found[1].id), returned |-> "Deleted memory"]

\* delete_memory_by_content(user_id, search_query, session_id): query_points
\* with limit=1 among the points whose user_id matches, then delete_memory
\* of the point found.
delete_memory_by_content(lt, user_id, search_query) ==
    LET found == Limit(RankBySimilarity(SelectSeq(lt, LAMBDA p : p.user_id = user_id),
                                        search_query), 1)
    IN  IF found = << >> THEN [ltm |-> lt, returned |-> NotFoundText]
        ELSE [ltm |-> delete_memory(lt, found[1].id), returned |-> "Deleted memory"]

LtDeleteByContent ==
    \E u \in Users, search_query \in {"fact", "hi"} :
        LET done == delete_memory_by_content(ltm, u, search_query) IN
        /\ ltmNext <= MaxPoints
        /\ ltmNext' = ltmNext + 1
        /\ ltm' = done.ltm
        /\ last' = [op |-> "delete_by_content", user_id |-> u, query |-> search_query,
                    returned |-> done.returned, before |-> ltm]
        /\ UNCHANGED ltmFrame

\* The summary record of an earlier maintenance run.
SummaryPoint ==
    [id |-> 120, text |-> "diary", type |-> "summary", importance |-> DiaryImportance,
     user_id |-> None, category |-> None, session_id |-> "s1",
     maintenance_reason |-> "milestone_reached"]

\* Core-fact counts of user u1 at DeleteInit (user u2 has none).
DeleteFacts == {0, 1, 2}

DeleteInit ==
    \E n \in DeleteFacts :
        /\ ltm = Append(PrefilledLtm(n), SummaryPoint)
        /\ ltmNext = 1
        /\ db = << >>
        /\ nextId = 1
        /\ clock = 0
        /\ startClock = 0
        /\ last = NoCall
        /\ agents = [s \in Sessions |-> None]
        /\ arrived = 0
        /\ pc = [r \in Reqs |-> "idle"]
        /\ inbound = [r \in Reqs |-> NoInbound]
        /\ messages = [r \in Reqs |-> << >>]
        /\ llmCalls = [r \in Reqs |-> 0]
        /\ toolErrors = [r \in Reqs |-> 0]
        /\ result = NoResult
        /\ reply = None

DeleteNext == LtSave \/ LtDeleteByContent

DeleteSpec == DeleteInit /\ [][DeleteNext]_vars

LtmNext == LtSave \/ LtDelete \/ LtSearch \/ LtCoreFacts \/ LtStats \/ LtContext

LtmSpec == LtmInit /\ [][LtmNext]_vars

\* =================================================================== claims

\* The `k` rows of a session with the greatest sequence numbers (ids), oldest first.
LastBySequence(d, session_id, k) ==
    LET rows == SessionRows(d, session_id)
        n == Len(rows)
    IN  SubSeq(rows, n - Min(k, n) + 1, n)

C7_RecentIsNewest ==
    last.op = "recent" =>
        /\ Len(last.rows) = Min(last.limit, get_message_count(db, last.session_id))
        /\ last.rows = LastBySequence(db, last.session_id, last.limit)

\* C8 (as claimed): after trim(session_id, L) the count is min(L, previous
\* count) and the retained turns are the L most recent by sequence.
C8_TrimKeepsNewest ==
    last.op = "trim" =>
        /\ get_message_count(db, last.session_id)
               = Min(last.limit, get_message_count(last.before, last.session_id))
        /\ SessionRows(db, last.session_id)
               = LastBySequence(last.before, last.session_id, last.limit)

\* C9: trim is idempotent: a second trim(session_id, L) right after the
\* first leaves the table exactly as the first left it.
C9_TrimIdempotent ==
    last.op = "trim" => trim_to_limit(db, last.session_id, last.limit) = db

\* C9 witness: a trim that deleted turns and kept at least one.
C9_Witness ==
    /\ last.op = "trim"
    /\ get_message_count(db, last.session_id) >= 1
    /\ get_message_count(db, last.session_id)
           < get_message_count(last.before, last.session_id)

\* The turns an inbound message's interaction left in short-term history.
RowsBy(seq) == SelectSeq(db, LAMBDA row : row.by = seq)

RolesOf(rows) == [i \in 1..Len(rows) |-> rows[i].role]

\* The step just taken ended a process_message call.
Ended == result.status # "none"

\* C1: the loop issues at most 5 chat_completion calls; when every response
\* carried tool calls it issued exactly 5 and process_message has ended; and
\* every step of a suspended call either ends it or issues the next call, so
\* the loop cannot go on for ever.
C1_Bounded ==
    /\ \A r \in Reqs : llmCalls[r] <= 5
    /\ result.calls <= 5
    /\ (Ended /\ result.exhausted) =>
           /\ result.calls = 5
           /\ result.status \in {"returned", "raised"}
           /\ (result.error = "none" => result.status = "returned")

C1_Progress ==
    \A r \in Reqs :
        (pc[r] = "llm" /\ <<pc[r], llmCalls[r]>> # <<pc[r], llmCalls[r]>>') =>
            \/ pc'[r] = "idle" /\ result'.seq = inbound[r].seq
            \/ pc'[r] = "llm" /\ llmCalls'[r] = llmCalls[r] + 1

C1_LoopTerminates == []C1_Bounded /\ [][C1_Progress]_vars

\* C1 witness: five responses with tool calls, and process_message returned.
C1_Witness ==
    Ended /\ result.exhausted /\ result.status = "returned" /\ result.calls = 5

\* The text a model response carries ("" when content is None).
TextOf(content) == IF content = None THEN "" ELSE content

\* C2 (as claimed): when the bound is exhausted, process_message raises
\* nothing (the store working) and returns the text content of the last
\* model response.
C2_ReturnsLastContent ==
    (Ended /\ result.exhausted /\ result.error # "store") =>
        /\ result.status = "returned"
        /\ result.text = TextOf(result.last_content)

\* C2 (amended): when the bound is exhausted, process_message raises nothing
\* (the store working) and returns the empty string, whatever content the
\* last model response carried; the only error that can leave it is a
\* failure of the short-term store while persisting.
C2_ExhaustedReturnsEmpty ==
    (Ended /\ result.exhausted) =>
        /\ result.error \in {"none", "store"}
        /\ result.error = "none" =>
               result.status = "returned" /\ result.text = ""

\* C2 witness: exhausted and returned although the last response had content.
C2_Witness ==
    /\ Ended /\ result.exhausted
    /\ result.status = "returned"
    /\ result.last_content = "thought"

\* A requested call that cannot succeed: unknown tool, payload that does not
\* deserialize, or a tool that raises (roll_dice with sides = 0).
IsBadCall(call) ==
    \/ call.name \notin ToolNames
    \/ call.arguments = "malformed"
    \/ (call.name = "roll_dice" /\ call.arguments = "sides=0")

\* C3: no tool error is fatal: every requested call is answered by a tool
\* message, a bad call by one whose content is an error string; no tool
\* exception leaves process_message; and a tool-free response after tool
\* errors is returned as the final answer.
C3_ToolErrorsIsolated ==
    /\ \A r \in Reqs :
           \A i \in 1..Len(messages[r]) :
               LET m == messages[r][i] IN
               (m.role = "assistant" /\ m.tool_calls # << >>) =>
                   \A j \in 1..Len(m.tool_calls) :
                       /\ i + j <= Len(messages[r])
                       /\ messages[r][i + j].role = "tool"
                       /\ messages[r][i + j].tool_call_id = m.tool_calls[j].id
                       /\ IsBadCall(m.tool_calls[j]) =>
                              messages[r][i + j].content
                                  \in {"Error executing tool", "Error: Tool not found."}
    /\ result.error # "tool"
    /\ (Ended /\ ~result.exhausted /\ result.error = "none") =>
           /\ result.status = "returned"
           /\ result.text = result.last_content

\* C3 witness: an unknown tool, a malformed payload and a raising tool were
\* each answered with an error string, and the later answer was returned.
C3_Witness ==
    /\ Ended /\ result.status = "returned"
    /\ result.text = "answer" /\ result.tool_errors >= 3

\* C4: when a chat_completion call of the loop fails, in any round, the error
\* leaves process_message, no turn of that interaction is in short-term
\* history, and on_message sends the generic failure reply.
C4_ModelErrorPersistsNothing ==
    result.error = "llm" =>
        /\ \A r \in Reqs : inbound[r].seq # result.seq
        /\ result.status = "raised"
        /\ RowsBy(result.seq) = << >>
        /\ reply = "My neural links are fuzzy. Try again?"

\* C4 witness: the model call of a later round failed, after tools had run
\* and written to long-term memory.
C4_Witness ==
    /\ result.error = "llm" /\ result.calls >= 2
    /\ result.tool_errors >= 3 /\ ltm # << >>

\* C5 (as claimed): an interaction that ends in an error leaves either both
\* of its turns (user, then assistant) or none in short-term history.
C5_BothTurnsOrNone ==
    (Ended /\ result.status = "raised") =>
        RolesOf(RowsBy(result.seq)) \in {<< >>, <<"user", "assistant">>}

\* C10 (as claimed): when add_interaction finds more than 50 turns, a summary
\* record tagged with the session and the maintenance reason exists
\* afterwards and the session holds 35 turns.
C10_SummaryThenThirtyFive ==
    (Ended /\ result.status = "returned" /\ result.count > 50) =>
        /\ \E i \in 1..Len(ltm) :
               /\ ltm[i].type = "summary"
               /\ ltm[i].session_id = result.session_id
               /\ ltm[i].maintenance_reason = "milestone_reached"
        /\ get_message_count(db, result.session_id) = 35

\* The rows a step wrote to the short-term history.
NewRows == SelectSeq(db', LAMBDA row : row.id >= nextId)

C17_Step ==
    /\ result'.status = "none" => NewRows = << >>
    /\ result'.status = "returned" =>
          /\ Len(NewRows) = 2
          /\ NewRows[1].role = "user" /\ NewRows[1].content = "hi"
          /\ NewRows[2].role = "assistant" /\ NewRows[2].content = result'.text
          /\ \A i \in 1..2 : /\ NewRows[i].session_id = result'.session_id
                              /\ NewRows[i].by = result'.seq

\* C17: every process_message call that returns persists exactly one
\* interaction, at the end.  A step that does not end a call (the first model
\* call being issued, a round of tool calls followed by the next model call)
\* writes no row to the short-term history; the step in which a call returns
\* writes exactly two rows, the user turn with the user's input and then the
\* assistant turn with the returned text, and no row of any other role.
C17_OneInteractionAtEnd == [][C17_Step]_vars

\* A call returned after tool rounds that accumulated messages: exhausted with
\* tool errors, the stored assistant turn being the returned empty text.
C17_Witness ==
    /\ result.status = "returned" /\ result.exhausted /\ result.tool_errors > 0
    /\ Len(RowsBy(result.seq)) = 2
    /\ RowsBy(result.seq)[2].content = result.text

\* The tool calls answered so far in invocation r: the call as the model
\* requested it, with the arguments the tool was called with.
AnsweredCalls(r) ==
    {[call |-> messages[r][i].tool_calls[j], called |-> messages[r][i + j].called,
      received |-> messages[r][i + j].received] :
        <<i, j>> \in {p \in (1..Len(messages[r])) \X (1..4) :
                         /\ messages[r][p[1]].role = "assistant"
                         /\ p[2] <= Len(messages[r][p[1]].tool_calls)
                         /\ p[1] + p[2] <= Len(messages[r])}}

\* C18: a tool that declares user_id and/or session_id is called with the
\* MemoryManager's user_id / session_id of the session, whatever the model's
\* payload said; every other argument, and every argument of a tool that
\* declares neither, is the one the model supplied.
C18_SessionArgsInjected ==
    \A r \in Reqs :
        pc[r] = "llm" =>
            \A c \in AnsweredCalls(r) :
                c.called =>
                    LET declared == Declares(c.call.name)
                        supplied == ParsedArgs(c.call.arguments)
                        session_id == inbound[r].session_id
                    IN  /\ "user_id" \in declared => c.received.user_id = agents[session_id]
                        /\ "session_id" \in declared => c.received.session_id = session_id
                        /\ DOMAIN c.received = DOMAIN supplied \cup (declared \cap SessionScoped)
                        /\ \A k \in DOMAIN c.received \ (declared \cap SessionScoped) :
                               c.received[k] = supplied[k]

\* C18 witness: save_memory was requested with another user's id and another
\* session's id and was called with the session's own; roll_dice was called
\* with exactly what the model supplied.
C18_Witness ==
    \E r \in Reqs :
        /\ pc[r] = "llm"
        /\ \E c \in AnsweredCalls(r) :
               /\ c.call.name = "save_memory"
               /\ ParsedArgs(c.call.arguments).user_id # agents[inbound[r].session_id]
               /\ ParsedArgs(c.call.arguments).session_id # inbound[r].session_id
               /\ c.received.user_id = agents[inbound[r].session_id]
               /\ c.received.session_id = inbound[r].session_id
               /\ \E i \in 1..Len(ltm) :
                      ltm[i].text = "fact" /\ ltm[i].user_id = agents[inbound[r].session_id]
        /\ \E c \in AnsweredCalls(r) :
               c.call.name = "roll_dice" /\ c.received = [sides |-> "6"]

\* C11 (as claimed): a maintenance failure is non-fatal and loses no turn:
\* add_interaction returns normally, both turns of the interaction are
\* stored and the turn count stays above the threshold.
C11_MaintenanceFailureNonFatal ==
    (last.op = "add_interaction" /\ last.maintenance = "failed") =>
        /\ last.error = "none"
        /\ RolesOf(RowsBy(last.call)) = <<"user", "assistant">>
        /\ get_message_count(db, last.session_id) > Milestone

\* C16: an add_interaction call that returns appends exactly two turns to its
\* session, the user turn first and the assistant turn second, under the next
\* two sequence numbers, after every turn appended by earlier calls.
C16_TwoTurnsInCallOrder ==
    (last.op = "add_interaction" /\ last.error = "none") =>
        LET rows == RowsBy(last.call) IN
        /\ RolesOf(rows) = <<"user", "assistant">>
        /\ <<rows[1].content, rows[2].content>> = <<"hi", last.bot_msg>>
        /\ <<rows[1].id, rows[2].id>> = <<last.first_id, last.first_id + 1>>
        /\ \A i \in 1..2 : rows[i].session_id = last.session_id
        /\ get_message_count(db, last.session_id) = last.count_before + 2
        /\ \A i \in 1..Len(db) : db[i].by # last.call => db[i].id < last.first_id
        /\ SubSeq(db, Len(db) - 1, Len(db)) = rows

\* C16 witness: the second of two add_interaction calls on one session
\* returned, the first having stored both its turns.
C16_Witness ==
    /\ last.op = "add_interaction" /\ last.error = "none" /\ last.call = 2
    /\ Len(RowsBy(1)) = 2
    /\ RowsBy(1)[1].session_id = last.session_id

\* The lines of a get_context result under the core-facts heading.
CoreSection(context) ==
    IF context = << >> \/ context[1] # "## CORE FACTS" THEN << >>
    ELSE LET heads == {i \in 1..Len(context) : context[i] = "## RELEVANT PAST MEMORIES"}
             end == IF heads = {} THEN Len(context)
                    ELSE (CHOOSE i \in heads : \A j \in heads : i <= j) - 1
         IN  SubSeq(context, 2, end)

\* The lines of a get_context result under the relevant-memories heading.
RelevantSection(context) ==
    LET heads == {i \in 1..Len(context) : context[i] = "## RELEVANT PAST MEMORIES"}
    IN  IF heads = {} THEN << >>
        ELSE SubSeq(context, (CHOOSE i \in heads : \A j \in heads : i <= j) + 1,
                    Len(context))

\* The stored core_fact records of a user.
CoreFactsOf(lt, user_id) ==
    SelectSeq(lt, LAMBDA p : p.type = "core_fact" /\ p.user_id = user_id)

Occurrences(x, seq) == Cardinality({i \in 1..Len(seq) : seq[i] = x})

\* C12 (as claimed): every get_context call for user U lists the text of
\* every stored core_fact record of U under the core facts, however many
\* there are, and lists nothing else there.
C12_CoreFactsAlwaysInContext ==
    last.op = "get_context" =>
        LET stored == Texts(CoreFactsOf(ltm, last.user_id))
            listed == CoreSection(last.context)
        IN  /\ \A i \in 1..Len(stored) : InSeq(stored[i], listed)
            /\ \A i \in 1..Len(listed) : InSeq(listed[i], stored)

\* C13 (as claimed): right after save(text=T, type=core_fact, user_id=U),
\* get_core_facts(U) includes T, whatever else is stored.
C13_CoreFactRoundTrip ==
    (last.op = "save" /\ last.type = "core_fact") =>
        InSeq(last.text, get_core_facts(ltm, last.user_id, CoreFactLimit))

\* C14 (as claimed): the dedup rule of C14_DedupHits, and a text that is both
\* an included core fact and a search hit occurs exactly once in the context.
C14_OneOccurrence ==
    last.op = "get_context" =>
        LET found == hits(ltm, last.user_input)
        IN  \A i \in 1..Len(found) :
                InSeq(found[i], CoreSection(last.context)) =>
                    Occurrences(found[i], last.context) = 1

\* C14 (amended): the relevant-memories list is the search hits without those
\* string-equal to a listed core fact, in search order, after the core facts;
\* a text that is both a listed core fact and a search hit occurs only among
\* the core facts (once for each listed core fact that carries it).
C14_DedupHits ==
    last.op = "get_context" =>
        LET found == hits(ltm, last.user_input)
            listed == CoreSection(last.context)
            relevant == RelevantSection(last.context)
        IN  /\ listed = get_core_facts(ltm, last.user_id, CoreFactLimit)
            /\ relevant = SelectSeq(found, LAMBDA h : ~InSeq(h, listed))
            /\ \A i \in 1..Len(found) :
                   InSeq(found[i], listed) =>
                       /\ ~InSeq(found[i], relevant)
                       /\ Occurrences(found[i], last.context) = Occurrences(found[i], listed)
            /\ last.context = (IF listed = << >> THEN << >> ELSE <<"## CORE FACTS">> \o listed)
                   \o (IF relevant = << >> THEN << >>
                       ELSE <<"## RELEVANT PAST MEMORIES">> \o relevant)

\* C14 witness: a search hit equal to a core fact was dropped and another hit
\* was kept.
C14_Witness ==
    /\ last.op = "get_context"
    /\ RelevantSection(last.context) # << >>
    /\ \E i \in 1..Len(hits(ltm, last.user_input)) :
           InSeq(hits(ltm, last.user_input)[i], CoreSection(last.context))

\* C15: get_context with no user input searches nothing: the result is the
\* user's core facts (as get_core_facts returns them) under the core-facts
\* heading and nothing under relevant memories, whatever else is stored.
C15_NoInputNoSearch ==
    (last.op = "get_context" /\ last.user_input = None) =>
        /\ RelevantSection(last.context) = << >>
        /\ CoreSection(last.context) = get_core_facts(ltm, last.user_id, CoreFactLimit)
        /\ last.context = IF CoreSection(last.context) = << >> THEN << >>
                          ELSE <<"## CORE FACTS">> \o CoreSection(last.context)

\* C15 witness: get_context(None) for a user with core facts while a
\* non-core record, which a search would return, is stored.
C15_Witness ==
    /\ last.op = "get_context" /\ last.user_input = None
    /\ CoreSection(last.context) # << >>
    /\ \E i \in 1..Len(ltm) : ltm[i].type = "episodic"
    /\ search_memories(ltm, "hi", SearchLimit, None) # << >>

\* The points of a collection, as a set.
Points(lt) == {lt[i] : i \in 1..Len(lt)}

\* What one step may do to the stored points.
C19_Step ==
    /\ \A p \in Points(ltm) :
           p \in Points(ltm') \/ (last'.op = "delete" /\ p.id = last'.id)
    /\ \A p \in Points(ltm') \ Points(ltm) :
           /\ last'.op = "save" /\ p.id = last'.id
           /\ p.id \notin Ids(ltm)
           /\ Len(ltm') = Len(ltm) + 1
    /\ (last'.op = "delete" /\ last' # last) => Points(ltm') = {p \in Points(ltm) : p.id # last'.id}
    /\ (last'.op = "save" /\ last' # last) => Points(ltm') # Points(ltm)
    /\ last'.op \notin {"save", "delete"} => ltm' = ltm

\* C19: the long-term store is append-only except for delete: no operation
\* changes a stored record; save adds exactly one record, under an id no
\* stored record has; delete removes the record with the given id and no
\* other; search, get_by_filter, get_core_facts and stats change nothing.
C19_AppendOnly == [][C19_Step]_vars

\* C19 witness: a delete removed one record of a collection that holds a
\* record saved after Init.
C19_Witness ==
    /\ last.op = "delete"
    /\ Len(ltm) = Len(last.before) - 1
    /\ \E i \in 1..Len(ltm) : ltm[i].id > 115

\* C20 (as claimed): save gives the new record an id no stored record has
\* and returns that id.
C20_SaveReturnsFreshId ==
    last.op = "save" =>
        /\ last.id \notin Ids(last.before)
        /\ \E i \in 1..Len(ltm) : ltm[i].id = last.id /\ ltm[i].text = last.text
        /\ last.returned = last.id

\* The key under which stats reports a record type.
StatKey(t) == IF t = "core_fact" THEN "core_facts" ELSE t

\* The number of stored records of a type, of one user when one is given.
TrueCount(lt, user_id, t) ==
    Cardinality({i \in 1..Len(lt) :
                    lt[i].type = t /\ (user_id = None \/ lt[i].user_id = user_id)})

\* C21 (as claimed): stats reports, for each of the record types core_fact,
\* episodic, general and summary, the number of stored records of that type,
\* of the given user when one is supplied.
C21_StatsAreTrueCounts ==
    last.op = "get_memory_stats" =>
        \A t \in {"core_fact", "episodic", "general", "summary"} :
            /\ StatKey(t) \in DOMAIN last.stats
            /\ last.stats[StatKey(t)] = TrueCount(ltm, last.user_id, t)

\* The history part of process_message's local `messages`: what follows the
\* system message, up to the user's input.
HistoryPart(r) == SubSeq(messages[r], 2, 1 + inbound[r].read_count)

\* The number of turns the interactions had written when invocation r read
\* the history: the session's initial turns have ids 1 .. 2 * startClock and
\* the content "m".
WrittenBefore(r) == inbound[r].read_upto - 1 - 2 * startClock

\* C22: requests of one session are not mutually excluded and work on the
\* history they read at their start.  While an invocation awaits the model,
\* a further message of the session is taken up; and an invocation in flight
\* keeps the turns it read (its `messages` are system message, the turns
\* read, the user's input, then its own rounds), whatever was persisted in
\* the meantime: none of the interactions persisted since its read is in them.
C22_SameSessionRace ==
    \A r \in Reqs :
        pc[r] = "llm" =>
            /\ \A q \in Reqs \ {r} :
                   (pc[q] = "idle" /\ arrived < MaxChannel) => ENABLED TakesUp(q, MaxChannel)
            /\ Len(messages[r]) >= inbound[r].read_count + 2
            /\ messages[r][inbound[r].read_count + 2] = Message("user", inbound[r].user_input)
            /\ Cardinality({i \in 1..Len(HistoryPart(r)) : HistoryPart(r)[i].content # "m"})
                   <= WrittenBefore(r)

\* C22 witness: the interaction persisted second was computed from a history
\* without the first.  The call that just returned read the history when the
\* table held no row of the other interaction, which was persisted in full
\* right after that read, before this one's turns.
C22_Witness ==
    /\ Ended /\ result.status = "returned"
    /\ \E o \in 1..MaxChannel :
           /\ o # result.seq
           /\ Len(RowsBy(o)) = 2
           /\ RowsBy(o)[1].id = result.read_upto
           /\ Len(RowsBy(result.seq)) = 2
           /\ RowsBy(result.seq)[1].id > RowsBy(o)[2].id

\* What the step that cancels an interaction may do to the short-term store.
C23_Step ==
    result'.status = "cancelled" =>
        /\ db' = db
        /\ Len(SelectSeq(db', LAMBDA row : row.by = result'.seq)) \in {0, 2}

\* C23: a cancellation delivered while an interaction is suspended does not
\* corrupt the short-term history: every turn stored before it is still
\* stored, and the log does not hold exactly one of the two turns of the
\* cancelled interaction.
C23_CancelKeepsHistory == [][C23_Step]_vars

\* C23 witness: an interaction was cancelled in a later round, after tool
\* calls had run, in a session that holds earlier turns.
C23_Witness ==
    /\ result.status = "cancelled" /\ result.calls > 1
    /\ get_message_count(db, result.session_id) > 0
    /\ RowsBy(result.seq) = << >>

\* What a round with tool calls appended to the message sequence of r.
Appended(r) == SubSeq(messages'[r], Len(messages[r]) + 1, Len(messages'[r]))

\* A step of a suspended call that issues the next model call.
C24_Step ==
    \A r \in Reqs :
        (pc[r] = "llm" /\ pc'[r] = "llm") =>
            /\ Len(messages'[r]) >= Len(messages[r])
            /\ SubSeq(messages'[r], 1, Len(messages[r])) = messages[r]
            /\ llmCalls'[r] = llmCalls[r] => messages'[r] = messages[r]
            /\ llmCalls'[r] # llmCalls[r] =>
                   /\ Appended(r) # << >>
                   /\ Appended(r)[1].role = "assistant"
                   /\ Appended(r)[1].tool_calls # << >>
                   /\ Len(Appended(r)) = 1 + Len(Appended(r)[1].tool_calls)
                   /\ \A i \in 1..Len(Appended(r)[1].tool_calls) :
                          /\ Appended(r)[i + 1].role = "tool"
                          /\ Appended(r)[i + 1].tool_call_id = Appended(r)[1].tool_calls[i].id
                          /\ Appended(r)[i + 1].name = Appended(r)[1].tool_calls[i].name

\* C24: in a round whose response carries tool calls the model's message is
\* appended first, then one tool-result message per call, in call order and
\* carrying the call's tool_call_id and name, all before the next model call;
\* messages already in the sequence are never removed or reordered.
C24_ToolProtocolOrder == [][C24_Step]_vars

\* C24 witness: the second model call is about to be issued after a round of
\* four tool calls, the first of which named an unknown tool.
C24_Witness ==
    \E r \in Reqs :
        /\ pc[r] = "llm" /\ llmCalls[r] = 2
        /\ Len(messages[r]) >= 5
        /\ LET n == Len(messages[r]) IN
               /\ Len(messages[r][n - 4].tool_calls) = 4
               /\ messages[r][n - 3].content = "Error: Tool not found."
               /\ messages[r][n - 3].tool_call_id = "c1"
               /\ messages[r][n].tool_call_id = "c4"

\* The ids of the stored turns, and the summary records of the long-term store.
TurnIds(d) == {d[i].id : i \in 1..Len(d)}

SummaryIds(lt) ==
    {lt[i].id : i \in {j \in 1..Len(lt) : lt[j].type = "summary" /\ lt[j].text \notin {None, ""}}}

\* What one add_interaction call may delete.
C25_Step ==
    last'.op = "add_interaction" =>
        /\ ~(TurnIds(db) \subseteq TurnIds(db')) =>
               /\ last'.count > Milestone
               /\ last'.maintenance = "done"
               /\ SummaryIds(ltm') # SummaryIds(ltm)
        /\ (last'.count <= Milestone \/ last'.maintenance # "done") =>
               /\ TurnIds(db) \subseteq TurnIds(db')
               /\ Len(db') >= Len(db)
        /\ SummaryIds(ltm') = SummaryIds(ltm) => TurnIds(db) \subseteq TurnIds(db')

\* C25: add_interaction deletes short-term turns only when the count after
\* the two appends exceeds 50 and a non-empty summary record was saved in the
\* same maintenance run; with a count of 50 or less, or when summarization
\* fails or yields nothing, or the save fails, no turn is deleted.
C25_TrimOnlyAfterSummary == [][C25_Step]_vars

\* C25 witness: an add_interaction call took the count above 50, its
\* maintenance run failed, and every turn stored before is still stored
\* together with the two new ones.
C25_Witness ==
    /\ last.op = "add_interaction" /\ last.error = "none"
    /\ last.count > Milestone /\ last.maintenance = "failed"
    /\ get_message_count(db, last.session_id) = last.count_before + 2
    /\ SummaryIds(ltm) = {}

\* The forget_recent_conversation tool run for session s on the store d.
Forgotten(d, s) ==
    ToolEffect([db |-> d, ltm |-> ltm, ltmNext |-> ltmNext],
               Call("c1", "forget_recent_conversation", "{}"), s, "u1").db

\* A maintenance run of session s on the store d, the summarizer replying.
Maintained(d, s) ==
    maintain_temporal_diary([db |-> d, ltm |-> ltm, ltmNext |-> ltmNext], s,
                            "milestone_reached", "diary").db

\* The tool's clear and the maintenance run leave the other sessions alone.
C26_Callers ==
    \A s \in Sessions : \A t \in Sessions \ {s} :
        /\ SessionRows(Forgotten(db, s), t) = SessionRows(db, t)
        /\ SessionRows(Forgotten(db, s), s) = << >>
        /\ SessionRows(Maintained(db, s), t) = SessionRows(db, t)

\* What add, trim and clear on session S change.
C26_Step ==
    last'.op \in {"add", "trim", "clear"} =>
        /\ \A t \in Sessions \ {last'.session_id} :
               SessionRows(db', t) = SessionRows(db, t)
        /\ (last'.op = "add" /\ nextId' # nextId) =>
               /\ db' = Append(db, db'[Len(db')])
               /\ SessionRows(db', last'.session_id)
                      = Append(SessionRows(db, last'.session_id), db'[Len(db')])
               /\ \A i \in 1..Len(db) : db[i].id < db'[Len(db')].id

\* C26: add, trim and clear on session S, the clear run by the
\* forget_recent_conversation tool and the trim run by maintenance included,
\* leave the turns, count and order of every other session unchanged, and add
\* changes S only by appending one turn.
C26_SessionConfined == []C26_Callers /\ [][C26_Step]_vars

\* C26 witness: a trim of s1 deleted turns of s1 while s2 holds turns, the
\* same ones as before.
C26_Witness ==
    /\ last.op = "trim" /\ last.session_id = "s1"
    /\ Len(SessionRows(db, "s1")) < Len(SessionRows(last.before, "s1"))
    /\ SessionRows(db, "s2") # << >>
    /\ SessionRows(db, "s2") = SessionRows(last.before, "s2")

\* C27: for every message being processed, the user_id with which get_context
\* fetched the core facts and the user_id injected into the tools called for
\* it are the id of the message's author, also when the session's Agent was
\* created by another user's message.
C27_AuthorIsMemoryUser ==
    \A r \in Reqs :
        pc[r] = "llm" =>
            /\ inbound[r].memory_user = inbound[r].author
            /\ \A i \in 1..Len(messages[r]) :
                   (/\ messages[r][i].role = "tool"
                    /\ messages[r][i].called
                    /\ "user_id" \in DOMAIN messages[r][i].received)
                       => messages[r][i].received.user_id = inbound[r].author

\* Whether a line of a context is the text of a record U may be shown: one
\* saved with U's user_id or with none.
OwnText(lt, user_id, line) ==
    \E i \in 1..Len(lt) : lt[i].text = line /\ lt[i].user_id \in {user_id, None}

C28_CoreListIsOwn ==
    last.op = "get_context" =>
        \A i \in 1..Len(CoreSection(last.context)) :
            OwnText(ltm, last.user_id, CoreSection(last.context)[i])

\* C28: the context get_context assembles for user U holds no text of a
\* long-term record saved with another user_id, neither among the core facts
\* nor among the relevant memories.
C28_NoForeignRecords ==
    last.op = "get_context" =>
        /\ \A i \in 1..Len(CoreSection(last.context)) :
               OwnText(ltm, last.user_id, CoreSection(last.context)[i])
        /\ \A i \in 1..Len(RelevantSection(last.context)) :
               OwnText(ltm, last.user_id, RelevantSection(last.context)[i])

C30_WholeInteractions ==
    \A r \in Reqs :
        pc[r] = "llm" =>
            /\ inbound[r].read_count % 2 = 0
            /\ \A i \in 1..inbound[r].read_count :
                   messages[r][1 + i].role = (IF i % 2 = 1 THEN "user" ELSE "assistant")

\* The positions in the session's log of the turns interaction o wrote.
PositionsBy(o, s) ==
    {i \in 1..Len(SessionRows(db, s)) : SessionRows(db, s)[i].by = o}

\* C31: the user turn and the assistant turn written by one add_interaction
\* are adjacent in the session's log, also when several process_message
\* calls of the session interleave: they hold consecutive positions and
\* consecutive sequence numbers, the user turn first.
C31_TurnsAdjacent ==
    \A o \in 1..MaxChannel : \A s \in Sessions :
        LET at == PositionsBy(o, s)
            rows == SessionRows(db, s)
        IN  at # {} =>
                \E i \in at :
                    /\ at = {i, i + 1}
                    /\ rows[i].role = "user" /\ rows[i + 1].role = "assistant"
                    /\ rows[i + 1].id = rows[i].id + 1

\* C31 witness: the first message of the channel was still in flight when
\* the second one read the history and stored its two turns; then the first
\* stored its own, after them.
C31_Witness ==
    /\ Ended /\ result.seq = 1 /\ result.status = "returned"
    /\ PositionsBy(1, "s1") # {} /\ PositionsBy(2, "s1") # {}
    /\ \A i \in PositionsBy(1, "s1") : \A j \in PositionsBy(2, "s1") : j < i
    /\ RowsBy(2)[1].id >= result.read_upto

\* The invocations whose maintenance run is in progress.
InMaintenance == {r \in Reqs : pc[r] = "diary"}

C32_OneAtATime == Cardinality(InMaintenance) <= 1

\* The session is above the milestone from its first crossing on until a
\* trim: the summaries saved for it come from one crossing.
C32_OneSummary ==
    Cardinality({i \in 1..Len(ltm) : ltm[i].type = "summary" /\ ltm[i].session_id = "s1"}) <= 1

SummarySaved == last.op = "diary" /\ last.diary \notin {None, ""}

\* A search of the summaries for the text itself does find it.
C33_FoundByQuery ==
    SummarySaved => InSeq(last.diary, browse_diary(ltm, "u1", None, last.diary))

GoneIds == Ids(last.before) \ Ids(ltm)

\* C34: a delete_memory_by_content call for user U removes at most one
\* record, and only one whose user_id is U; every other record, those of
\* other users and those without a user_id included, stays as it was; when U
\* has no record nothing is deleted and the not-found message is returned.
C34_DeletesOwnRecordOnly ==
    last.op = "delete_by_content" =>
        /\ Cardinality(GoneIds) <= 1
        /\ \A i \in 1..Len(last.before) :
               last.before[i].id \in GoneIds => last.before[i].user_id = last.user_id
        /\ ltm = SelectSeq(last.before, LAMBDA p : p.id \notin GoneIds)
        /\ (\A i \in 1..Len(last.before) : last.before[i].user_id # last.user_id) =>
               /\ ltm = last.before
               /\ last.returned = NotFoundText

\* C34 witness: a call for u2 removed u2's record from a collection that
\* also holds a record of u1 and the summary record, which are both kept.
C34_Witness ==
    /\ last.op = "delete_by_content" /\ last.user_id = "u2"
    /\ Cardinality(GoneIds) = 1
    /\ \E i \in 1..Len(ltm) : ltm[i].user_id = "u1"
    /\ \E i \in 1..Len(ltm) : ltm[i].user_id = None
    /\ last.returned # NotFoundText

====
